---- MODULE Spec2Model ----
(***************************************************************************)
(* Model of the recipe canister of src/src/index.ts.  The file holds two   *)
(* revisions of the same canister: revision A (lines 1-268) and revision B *)
(* (lines 270-537).  A behaviour of the model is one canister of one       *)
(* revision receiving an arbitrary sequence of calls; the host serialises  *)
(* the calls, so every call is one atomic step.                            *)
(*                                                                         *)
(* A text is a string; Spell gives the characters of every text of the     *)
(* model, so that the format check of isValidUUID and the lower-casing of  *)
(* the queries are computed from the characters and not assumed.           *)
(***************************************************************************)
EXTENDS Integers, Sequences, FiniteSets, TLC

VARIABLES rev, store, pre, last

vars == <<rev, store, pre, last>>

(***************************************************************************)
(* Bounds.                                                                 *)
(***************************************************************************)
\* Number of distinct values uuidv4() can return in the model.
NumUUIDs == 2

(***************************************************************************)
(* Characters and texts.                                                   *)
(***************************************************************************)
Digits == <<"0", "1", "2", "3", "4", "5", "6", "7", "8", "9">>

Upper == <<"A", "B", "C", "D", "E", "F", "G", "H", "I", "J", "K", "L", "M",
           "N", "O", "P", "Q", "R", "S", "T", "U", "V", "W", "X", "Y", "Z">>

Lower == <<"a", "b", "c", "d", "e", "f", "g", "h", "i", "j", "k", "l", "m",
           "n", "o", "p", "q", "r", "s", "t", "u", "v", "w", "x", "y", "z">>

\* The characters of the model in code-unit order ('-' < digits < upper < lower).
Ascii == <<"-">> \o Digits \o Upper \o Lower

Range(s) == {s[i] : i \in 1..Len(s)}

\* The code unit of a character, as its place in Ascii.
CodeUnit == [c \in Range(Ascii) |-> CHOOSE i \in 1..Len(Ascii) : Ascii[i] = c]

Ord(c) == CodeUnit[c]

DigitSet == Range(Digits)

UpperSet == Range(Upper)

LowerOf == [c \in UpperSet |-> Lower[CHOOSE i \in 1..Len(Upper) : Upper[i] = c]]

\* String.prototype.toLowerCase on one character.
LowerChar(c) == IF c \in UpperSet THEN LowerOf[c] ELSE c

\* The characters of the version-4 UUID "<d>23e4567-e89b-42d3-a456-426614174000".
UuidChars(d) ==
    <<d>>
    \o <<"2", "3", "e", "4", "5", "6", "7", "-">>
    \o <<"e", "8", "9", "b", "-">>
    \o <<"4", "2", "d", "3", "-">>
    \o <<"a", "4", "5", "6", "-">>
    \o <<"4", "2", "6", "6", "1", "4", "1", "7", "4", "0", "0", "0">>

\* The texts of the model, character by character.
Spell ==
    ("" :> <<>>)
    @@ ("123e4567-e89b-42d3-a456-426614174000" :> UuidChars("1"))
    @@ ("223e4567-e89b-42d3-a456-426614174000" :> UuidChars("2"))
    @@ ("323e4567-e89b-42d3-a456-426614174000" :> UuidChars("3"))
    @@ ("423e4567-e89b-42d3-a456-426614174000" :> UuidChars("4"))
    @@ ("not-a-uuid" :> <<"n", "o", "t", "-", "a", "-", "u", "u", "i", "d">>)
    @@ ("Banitsa" :> <<"B", "a", "n", "i", "t", "s", "a">>)
    @@ ("banitsa" :> <<"b", "a", "n", "i", "t", "s", "a">>)
    @@ ("BANITSA" :> <<"B", "A", "N", "I", "T", "S", "A">>)
    @@ ("Musaka" :> <<"M", "u", "s", "a", "k", "a">>)
    @@ ("musaka" :> <<"m", "u", "s", "a", "k", "a">>)
    @@ ("Bulgarian" :> <<"B", "u", "l", "g", "a", "r", "i", "a", "n">>)
    @@ ("bulgarian" :> <<"b", "u", "l", "g", "a", "r", "i", "a", "n">>)
    @@ ("Greek" :> <<"G", "r", "e", "e", "k">>)
    @@ ("GREEK" :> <<"G", "R", "E", "E", "K">>)
    @@ ("Maria" :> <<"M", "a", "r", "i", "a">>)
    @@ ("maria" :> <<"m", "a", "r", "i", "a">>)
    @@ ("Ivan" :> <<"I", "v", "a", "n">>)
    @@ ("d1" :> <<"d", "1">>)
    @@ ("d2" :> <<"d", "2">>)
    @@ ("v1" :> <<"v", "1">>)
    @@ ("v2" :> <<"v", "2">>)
    @@ ("123e4567-e89b-12d3-a456-426614174000" :>
          <<"1", "2", "3", "e", "4", "5", "6", "7", "-", "e", "8", "9",
            "b", "-", "1", "2", "d", "3", "-", "a", "4", "5", "6", "-",
            "4", "2", "6", "6", "1", "4", "1", "7", "4", "0", "0", "0">>)
    @@ ("123E4567-E89B-12D3-A456-426614174000" :>
          <<"1", "2", "3", "E", "4", "5", "6", "7", "-", "E", "8", "9",
            "B", "-", "1", "2", "D", "3", "-", "A", "4", "5", "6", "-",
            "4", "2", "6", "6", "1", "4", "1", "7", "4", "0", "0", "0">>)
    @@ ("123e4567e-89b-12d3-a456-426614174000" :>
          <<"1", "2", "3", "e", "4", "5", "6", "7", "e", "-", "8", "9",
            "b", "-", "1", "2", "d", "3", "-", "a", "4", "5", "6", "-",
            "4", "2", "6", "6", "1", "4", "1", "7", "4", "0", "0", "0">>)
    @@ ("123e4567-e89b-12d3-a456-4266141740000" :>
          <<"1", "2", "3", "e", "4", "5", "6", "7", "-", "e", "8", "9",
            "b", "-", "1", "2", "d", "3", "-", "a", "4", "5", "6", "-",
            "4", "2", "6", "6", "1", "4", "1", "7", "4", "0", "0", "0",
            "0">>)
    @@ ("0123e4567-e89b-12d3-a456-426614174000" :>
          <<"0", "1", "2", "3", "e", "4", "5", "6", "7", "-", "e", "8",
            "9", "b", "-", "1", "2", "d", "3", "-", "a", "4", "5", "6",
            "-", "4", "2", "6", "6", "1", "4", "1", "7", "4", "0", "0",
            "0">>)
    @@ ("123e4567-e89b-12d3-a456-42661417400g" :>
          <<"1", "2", "3", "e", "4", "5", "6", "7", "-", "e", "8", "9",
            "b", "-", "1", "2", "d", "3", "-", "a", "4", "5", "6", "-",
            "4", "2", "6", "6", "1", "4", "1", "7", "4", "0", "0", "g">>)
    @@ ("123e4567-e89b-12d3-a456-42661417400" :>
          <<"1", "2", "3", "e", "4", "5", "6", "7", "-", "e", "8", "9",
            "b", "-", "1", "2", "d", "3", "-", "a", "4", "5", "6", "-",
            "4", "2", "6", "6", "1", "4", "1", "7", "4", "0", "0">>)

Texts == DOMAIN Spell

Chars(text) == Spell[text]

\* String.prototype.toLowerCase on a sequence of characters.
LowerChars(s) == [i \in 1..Len(s) |-> LowerChar(s[i])]

\* The lower-cased characters of every text, computed once.
LowerCased == [t \in Texts |-> LowerChars(Chars(t))]

\* text.toLowerCase(), as characters.
ToLowerCase(text) == LowerCased[text]

\* JavaScript truthiness of a string: the empty string is falsy.
Truthy(text) == Len(Chars(text)) # 0

\* a || b on strings.
OrElse(a, b) == IF Truthy(a) THEN a ELSE b

(***************************************************************************)
(* isValidUUID                                                             *)
(***************************************************************************)
\* [\da-f] under the i flag.
HexClassA(c) ==
    \/ c \in DigitSet
    \/ LowerChar(c) \in {"a", "b", "c", "d", "e", "f"}

\* [a-fA-F0-9] under the i flag.
HexClassB(c) ==
    \/ c \in {"a", "b", "c", "d", "e", "f"}
    \/ c \in {"A", "B", "C", "D", "E", "F"}
    \/ c \in DigitSet
    \/ LowerChar(c) \in {"a", "b", "c", "d", "e", "f"}

\* s has n characters of class A starting at position from.
RunA(s, from, n) ==
    /\ from + n - 1 <= Len(s)
    /\ \A i \in from..(from + n - 1) : HexClassA(s[i])

RunB(s, from, n) ==
    /\ from + n - 1 <= Len(s)
    /\ \A i \in from..(from + n - 1) : HexClassB(s[i])

DashAt(s, i) == i <= Len(s) /\ s[i] = "-"

\* ([\da-f]{4}-){k} matched at position from; the groups are 5 long.
RECURSIVE GroupsA(_, _, _)
GroupsA(s, from, k) ==
    IF k = 0 THEN TRUE
    ELSE /\ RunA(s, from, 4)
         /\ DashAt(s, from + 4)
         /\ GroupsA(s, from + 5, k - 1)

\* Faulty variant of MatchesA: the pattern lacks the closing $.
MatchesA_Unanchored(s) ==
    /\ RunA(s, 1, 8)
    /\ DashAt(s, 9)
    /\ GroupsA(s, 10, 3)
    /\ RunA(s, 25, 12)

\* Revision A: /^[\da-f]{8}-([\da-f]{4}-){3}[\da-f]{12}$/i on the characters s.
MatchesA(s) ==
    /\ RunA(s, 1, 8)
    /\ DashAt(s, 9)
    /\ GroupsA(s, 10, 3)
    /\ RunA(s, 25, 12)
    /\ Len(s) = 36

\* The verdict of the revision A pattern on every text, computed once.
VerdictA == [t \in Texts |-> MatchesA(Chars(t))]

IsValidUUIDA(id) == VerdictA[id]

\* Revision B:
\* /^[a-fA-F0-9]{8}-[a-fA-F0-9]{4}-[a-fA-F0-9]{4}-[a-fA-F0-9]{4}-[a-fA-F0-9]{12}$/i
\* on the characters s.
MatchesB(s) ==
    /\ RunB(s, 1, 8)
    /\ DashAt(s, 9)
    /\ RunB(s, 10, 4)
    /\ DashAt(s, 14)
    /\ RunB(s, 15, 4)
    /\ DashAt(s, 19)
    /\ RunB(s, 20, 4)
    /\ DashAt(s, 24)
    /\ RunB(s, 25, 12)
    /\ Len(s) = 36

\* The verdict of the revision B pattern on every text, computed once.
VerdictB == [t \in Texts |-> MatchesB(Chars(t))]

IsValidUUIDB(id) == VerdictB[id]

(***************************************************************************)
(* uuidv4(): a random version-4 UUID.  Nothing in the canister checks the  *)
(* value against the store, so a call may return any value of the pool.    *)
(***************************************************************************)
UuidTexts ==
    <<"123e4567-e89b-42d3-a456-426614174000",
      "223e4567-e89b-42d3-a456-426614174000",
      "323e4567-e89b-42d3-a456-426614174000",
      "423e4567-e89b-42d3-a456-426614174000">>

UuidV4(i) == UuidTexts[i]

UuidPool == {UuidV4(i) : i \in 1..NumUUIDs}

(***************************************************************************)
(* Inputs of the calls.                                                    *)
(***************************************************************************)
NotAUuid == "not-a-uuid"

\* Recipe ids a caller may pass: every generated id and a malformed one.
IdArgs == UuidPool \cup {NotAUuid}

\* Identities a caller may pass: two well-formed ones (the owner of a record
\* and another caller) and a malformed one.
Identities == {UuidV4(1), UuidV4(2), NotAUuid}

\* Texts isValidUUID is called with, besides the ids above.
\* The example of the specification.
SpecExampleUuid == "123e4567-e89b-12d3-a456-426614174000"

\* The same in upper case.
UpperCaseUuid == "123E4567-E89B-12D3-A456-426614174000"

\* 36 characters, first hyphen one place late.
WrongGrouping == "123e4567e-89b-12d3-a456-426614174000"

\* A 13th digit at the end.
TrailingExtra == "123e4567-e89b-12d3-a456-4266141740000"

\* A 9th digit at the start.
LeadingExtra == "0123e4567-e89b-12d3-a456-426614174000"

\* A letter that is no hex digit.
NonHexLetter == "123e4567-e89b-12d3-a456-42661417400g"

\* 11 digits in the last group.
TooShort == "123e4567-e89b-12d3-a456-42661417400"

ValidatorArgs ==
    IdArgs \cup {"", SpecExampleUuid, UpperCaseUuid, WrongGrouping, TrailingExtra,
                 LeadingExtra, NonHexLetter, TooShort}

Empty == ""

Payload(n, t, d, o, v) ==
    [recipeName |-> n, recipeType |-> t, description |-> d,
     ownerName |-> o, videoDemonstration |-> v]

PayloadA == Payload("Banitsa", "Bulgarian", "d1", "Maria", "v1")
PayloadB == Payload("banitsa", "Greek", "d2", "Ivan", "v2")
\* Only the name is given.
PayloadU == Payload("Musaka", "", "", "", "")
\* Everything but the name is given.
PayloadV == Payload("", "Greek", "d2", "Ivan", "v2")
PayloadE == Payload("", "", "", "", "")

\* The payloads createRecipe is called with: two complete ones and three
\* that lack some field.
Payloads == {PayloadA, PayloadB, PayloadU, PayloadV, PayloadE}

\* The payloads updateRecipe is called with.
UpdatePayloads == {PayloadA, PayloadB, PayloadU, PayloadE}

NameQueries == {"BANITSA", "musaka"}
TypeQueries == {"bulgarian", "GREEK"}
OwnerNameQueries == {"Maria", "maria", "Ivan"}

(***************************************************************************)
(* Results.  A Result.Err carries a message; the model keeps the kind of   *)
(* the failure the message stands for.                                     *)
(***************************************************************************)
Ok(recipes) == [kind |-> "Ok", value |-> recipes]
Err(k) == [kind |-> k, value |-> <<>>]
Bool(b) == [kind |-> IF b THEN "true" ELSE "false", value |-> <<>>]

(***************************************************************************)
(* StableBTreeMap<string, Recipe>: a map from key to record, ordered by    *)
(* key.  The model's value is a function from the stored keys.             *)
(***************************************************************************)
EmptyMap == [k \in {} |-> 0]

MapGet(st, k) == IF k \in DOMAIN st THEN <<st[k]>> ELSE <<>>

MapInsert(st, k, v) == [x \in DOMAIN st \cup {k} |-> IF x = k THEN v ELSE st[x]]

MapRemove(st, k) == [x \in DOMAIN st \ {k} |-> st[x]]

\* a <= b in code-unit order, on characters.
LeqChars(a, b) ==
    LET n == IF Len(a) < Len(b) THEN Len(a) ELSE Len(b)
        diffs == {i \in 1..n : a[i] # b[i]}
    IN  IF diffs = {} THEN Len(a) <= Len(b)
        ELSE LET i == CHOOSE j \in diffs : \A o \in diffs : j <= o
             IN  Ord(a[i]) < Ord(b[i])

\* The order of the generated keys, computed once.
KeyOrder == [x \in UuidPool |-> [y \in UuidPool |-> LeqChars(Chars(x), Chars(y))]]

LeqStr(x, y) == KeyOrder[x][y]

RECURSIVE SortKeys(_)
SortKeys(S) ==
    IF S = {} THEN <<>>
    ELSE LET m == CHOOSE k \in S : \A o \in S : LeqStr(k, o)
         IN  <<m>> \o SortKeys(S \ {m})

\* recipeStorage.values(): the records in key order.
MapValues(st) ==
    LET keys == SortKeys(DOMAIN st)
    IN  [i \in 1..Len(keys) |-> st[keys[i]]]

(***************************************************************************)
(* Revision A: the operations as functions of the store.  An operation     *)
(* that writes returns the new store with its result.                      *)
(***************************************************************************)
Out(st, r) == [store |-> st, result |-> r]

GetAllRecipesA(st) ==
    IF Len(MapValues(st)) = 0
    THEN Err("EmptyResult")
    ELSE Ok(MapValues(st))

GetRecipeByIdA(st, recipeId) ==
    IF ~IsValidUUIDA(recipeId)
    THEN Err("InvalidId")
    ELSE LET got == MapGet(st, recipeId)
         IN  IF got # <<>> THEN Ok(<<got[1]>>) ELSE Err("NotFound")

GetRecipeByNameA(st, recipeName) ==
    LET result == SelectSeq(MapValues(st),
                      LAMBDA recipe :
                          ToLowerCase(recipe.recipeName) = ToLowerCase(recipeName))
    IN  IF Len(result) = 0 THEN Err("EmptyResult") ELSE Ok(result)

GetOwnersRecipesByIdA(st, ownerId) ==
    IF ~IsValidUUIDA(ownerId)
    THEN Err("InvalidId")
    ELSE LET result == SelectSeq(MapValues(st),
                           LAMBDA recipe : recipe.ownerId = ownerId)
         IN  IF Len(result) = 0 THEN Err("EmptyResult") ELSE Ok(result)

\* Faulty variant of GetRecipesByOwnersNameA: the names are lower-cased
\* before they are compared, as in getRecipeByName.
GetRecipesByOwnersNameA_IgnoringCase(st, ownerName) ==
    LET result == SelectSeq(MapValues(st),
                      LAMBDA recipe :
                          ToLowerCase(recipe.ownerName) = ToLowerCase(ownerName))
    IN  IF Len(result) = 0 THEN Err("EmptyResult") ELSE Ok(result)

GetRecipesByOwnersNameA(st, ownerName) ==
    LET result == SelectSeq(MapValues(st),
                      LAMBDA recipe : recipe.ownerName = ownerName)
    IN  IF Len(result) = 0 THEN Err("EmptyResult") ELSE Ok(result)

\* Faulty variant of GetRecipesByTypeA: the comparison keeps the case.
GetRecipesByTypeA_CaseSensitive(st, recipeType) ==
    LET result == SelectSeq(MapValues(st),
                      LAMBDA recipe : recipe.recipeType = recipeType)
    IN  IF Len(result) = 0 THEN Err("EmptyResult") ELSE Ok(result)

GetRecipesByTypeA(st, recipeType) ==
    LET result == SelectSeq(MapValues(st),
                      LAMBDA recipe :
                          ToLowerCase(recipe.recipeType) = ToLowerCase(recipeType))
    IN  IF Len(result) = 0 THEN Err("EmptyResult") ELSE Ok(result)

\* Faulty variant of IncompleteA: recipeName is not checked.
IncompleteA_NameUnchecked(payload) ==
    \/ ~Truthy(payload.recipeType)
    \/ ~Truthy(payload.description)
    \/ ~Truthy(payload.ownerName)
    \/ ~Truthy(payload.videoDemonstration)

\* The payload check of createRecipe.
IncompleteA(payload) ==
    \/ ~Truthy(payload.recipeType)
    \/ ~Truthy(payload.description)
    \/ ~Truthy(payload.ownerName)
    \/ ~Truthy(payload.videoDemonstration)
    \/ ~Truthy(payload.recipeName)

\* recipeId and ownerId are the values of the two uuidv4() calls.
NewRecipeA(payload, recipeId, ownerId) ==
    [id |-> recipeId,
     recipeName |-> payload.recipeName,
     recipeType |-> payload.recipeType,
     description |-> payload.description,
     ownerName |-> payload.ownerName,
     ownerId |-> ownerId,
     videoDemonstration |-> payload.videoDemonstration]

\* Faulty variant of CreateRecipeA: the record is inserted under its ownerId.
CreateRecipeA_KeyedByOwner(st, payload, recipeId, ownerId) ==
    IF IncompleteA(payload)
    THEN Out(st, Err("IncompleteInput"))
    ELSE LET newRecipe == NewRecipeA(payload, recipeId, ownerId)
         IN  Out(MapInsert(st, newRecipe.ownerId, newRecipe), Ok(<<newRecipe>>))

CreateRecipeA(st, payload, recipeId, ownerId) ==
    IF IncompleteA(payload)
    THEN Out(st, Err("IncompleteInput"))
    ELSE LET newRecipe == NewRecipeA(payload, recipeId, ownerId)
         IN  Out(MapInsert(st, newRecipe.id, newRecipe), Ok(<<newRecipe>>))

\* Faulty variant of UpdatedRecipeA: ownerId is taken from the payload's
\* ownerName when that is given.
UpdatedRecipeA_OwnerFromName(recipe, payload) ==
    [id |-> recipe.id,
     recipeName |-> OrElse(payload.recipeName, recipe.recipeName),
     recipeType |-> OrElse(payload.recipeType, recipe.recipeType),
     description |-> OrElse(payload.description, recipe.description),
     ownerName |-> OrElse(payload.ownerName, recipe.ownerName),
     ownerId |-> OrElse(payload.ownerName, recipe.ownerId),
     videoDemonstration |-> OrElse(payload.videoDemonstration,
                                   recipe.videoDemonstration)]

\* Faulty variant of UpdatedRecipeA: recipeName and recipeType fall back on
\* each other's stored value.
UpdatedRecipeA_Swapped(recipe, payload) ==
    [id |-> recipe.id,
     recipeName |-> OrElse(payload.recipeName, recipe.recipeType),
     recipeType |-> OrElse(payload.recipeType, recipe.recipeName),
     description |-> OrElse(payload.description, recipe.description),
     ownerName |-> OrElse(payload.ownerName, recipe.ownerName),
     ownerId |-> recipe.ownerId,
     videoDemonstration |-> OrElse(payload.videoDemonstration,
                                   recipe.videoDemonstration)]

UpdatedRecipeA(recipe, payload) ==
    [id |-> recipe.id,
     recipeName |-> OrElse(payload.recipeName, recipe.recipeName),
     recipeType |-> OrElse(payload.recipeType, recipe.recipeType),
     description |-> OrElse(payload.description, recipe.description),
     ownerName |-> OrElse(payload.ownerName, recipe.ownerName),
     ownerId |-> recipe.ownerId,
     videoDemonstration |-> OrElse(payload.videoDemonstration,
                                   recipe.videoDemonstration)]

\* Faulty variant of UpdateRecipeA: the ownership check is missing.
UpdateRecipeA_NoOwnerCheck(st, recipeId, ownerId, payload) ==
    IF ~IsValidUUIDA(recipeId) \/ ~IsValidUUIDA(ownerId)
    THEN Out(st, Err("InvalidId"))
    ELSE LET got == MapGet(st, recipeId)
         IN  IF got = <<>>
             THEN Out(st, Err("NotFound"))
             ELSE LET recipe == got[1]
                      updatedRecipe == UpdatedRecipeA(recipe, payload)
                  IN  Out(MapInsert(st, recipe.id, updatedRecipe),
                          Ok(<<updatedRecipe>>))

UpdateRecipeA(st, recipeId, ownerId, payload) ==
    IF ~IsValidUUIDA(recipeId) \/ ~IsValidUUIDA(ownerId)
    THEN Out(st, Err("InvalidId"))
    ELSE LET got == MapGet(st, recipeId)
         IN  IF got = <<>>
             THEN Out(st, Err("NotFound"))
             ELSE LET recipe == got[1]
                  IN  IF recipe.ownerId # ownerId
                      THEN Out(st, Err("Unauthorized"))
                      ELSE LET updatedRecipe == UpdatedRecipeA(recipe, payload)
                           IN  Out(MapInsert(st, recipe.id, updatedRecipe),
                                   Ok(<<updatedRecipe>>))

\* Faulty variant of DeleteRecipeA: the owner id argument is not validated.
DeleteRecipeA_OwnerUnvalidated(st, recipeId, ownerId) ==
    IF ~IsValidUUIDA(recipeId)
    THEN Out(st, Err("InvalidId"))
    ELSE LET got == MapGet(st, recipeId)
             removed == MapRemove(st, recipeId)
         IN  IF got = <<>>
             THEN Out(removed, Err("NotFound"))
             ELSE LET recipe == got[1]
                  IN  IF recipe.ownerId # ownerId
                      THEN Out(removed, Err("Unauthorized"))
                      ELSE Out(removed, Ok(<<recipe>>))

\* recipeStorage.remove(recipeId) runs before the ownership check.
DeleteRecipeA(st, recipeId, ownerId) ==
    IF ~IsValidUUIDA(recipeId) \/ ~IsValidUUIDA(ownerId)
    THEN Out(st, Err("InvalidId"))
    ELSE LET got == MapGet(st, recipeId)
             removed == MapRemove(st, recipeId)
         IN  IF got = <<>>
             THEN Out(removed, Err("NotFound"))
             ELSE LET recipe == got[1]
                  IN  IF recipe.ownerId # ownerId
                      THEN Out(removed, Err("Unauthorized"))
                      ELSE Out(removed, Ok(<<recipe>>))

(***************************************************************************)
(* Revision B.                                                             *)
(***************************************************************************)
\* Faulty variant of GetAllRecipesB: the empty store is not told apart.
GetAllRecipesB_NoEmptyCheck(st) == Ok(MapValues(st))

GetAllRecipesB(st) ==
    LET recipes == MapValues(st)
    IN  IF Len(recipes) = 0 THEN Err("EmptyResult") ELSE Ok(recipes)

\* Faulty variant of GetRecipeByIdB: requesterId is validated as well.
GetRecipeByIdB_RequesterValidated(st, recipeId, requesterId) ==
    IF ~IsValidUUIDB(recipeId) \/ ~IsValidUUIDB(requesterId)
    THEN Err("InvalidId")
    ELSE LET got == MapGet(st, recipeId)
         IN  IF got = <<>>
             THEN Err("NotFound")
             ELSE IF got[1].ownerId # requesterId
                  THEN Err("Unauthorized")
                  ELSE Ok(<<got[1]>>)

GetRecipeByIdB(st, recipeId, requesterId) ==
    IF ~IsValidUUIDB(recipeId)
    THEN Err("InvalidId")
    ELSE LET got == MapGet(st, recipeId)
         IN  IF got = <<>>
             THEN Err("NotFound")
             ELSE IF got[1].ownerId # requesterId
                  THEN Err("Unauthorized")
                  ELSE Ok(<<got[1]>>)

GetRecipeByNameB(st, recipeName) ==
    LET result == SelectSeq(MapValues(st),
                      LAMBDA recipe :
                          ToLowerCase(recipe.recipeName) = ToLowerCase(recipeName))
    IN  IF Len(result) = 0 THEN Err("EmptyResult") ELSE Ok(result)

\* Faulty variant of GetOwnersRecipesByIdB: ownerId is not validated.
GetOwnersRecipesByIdB_Unvalidated(st, ownerId, requesterId) ==
    LET result == SelectSeq(MapValues(st),
                      LAMBDA recipe : recipe.ownerId = ownerId)
    IN  IF Len(result) = 0 THEN Err("EmptyResult") ELSE Ok(result)

\* requesterId is not read.
GetOwnersRecipesByIdB(st, ownerId, requesterId) ==
    IF ~IsValidUUIDB(ownerId)
    THEN Err("InvalidId")
    ELSE LET result == SelectSeq(MapValues(st),
                           LAMBDA recipe : recipe.ownerId = ownerId)
         IN  IF Len(result) = 0 THEN Err("EmptyResult") ELSE Ok(result)

\* requesterId is not read.
GetRecipesByOwnersNameB(st, ownerName, requesterId) ==
    LET result == SelectSeq(MapValues(st),
                      LAMBDA recipe : recipe.ownerName = ownerName)
    IN  IF Len(result) = 0 THEN Err("EmptyResult") ELSE Ok(result)

GetRecipesByTypeB(st, recipeType) ==
    LET result == SelectSeq(MapValues(st),
                      LAMBDA recipe :
                          ToLowerCase(recipe.recipeType) = ToLowerCase(recipeType))
    IN  IF Len(result) = 0 THEN Err("EmptyResult") ELSE Ok(result)

\* Faulty variant of IncompleteB: recipeName is not checked.
IncompleteB_NameUnchecked(payload) ==
    \/ ~Truthy(payload.recipeType)
    \/ ~Truthy(payload.description)
    \/ ~Truthy(payload.ownerName)
    \/ ~Truthy(payload.videoDemonstration)

IncompleteB(payload) ==
    \/ ~Truthy(payload.recipeType)
    \/ ~Truthy(payload.description)
    \/ ~Truthy(payload.ownerName)
    \/ ~Truthy(payload.videoDemonstration)
    \/ ~Truthy(payload.recipeName)

\* Faulty variant of NewRecipeB: ownerId is taken from the payload's ownerName.
NewRecipeB_OwnerFromName(requesterId, payload, recipeId) ==
    [id |-> recipeId,
     recipeName |-> payload.recipeName,
     recipeType |-> payload.recipeType,
     description |-> payload.description,
     ownerName |-> payload.ownerName,
     ownerId |-> payload.ownerName,
     videoDemonstration |-> payload.videoDemonstration]

\* recipeId is the value of the uuidv4() call.
NewRecipeB(requesterId, payload, recipeId) ==
    [id |-> recipeId,
     recipeName |-> payload.recipeName,
     recipeType |-> payload.recipeType,
     description |-> payload.description,
     ownerName |-> payload.ownerName,
     ownerId |-> requesterId,
     videoDemonstration |-> payload.videoDemonstration]

CreateRecipeB(st, requesterId, payload, recipeId) ==
    IF IncompleteB(payload)
    THEN Out(st, Err("IncompleteInput"))
    ELSE LET newRecipe == NewRecipeB(requesterId, payload, recipeId)
         IN  Out(MapInsert(st, newRecipe.id, newRecipe), Ok(<<newRecipe>>))

\* Faulty variant of UpdatedRecipeB: description does not fall back on the
\* stored value.
UpdatedRecipeB_NoFallback(recipe, payload) ==
    [id |-> recipe.id,
     recipeName |-> OrElse(payload.recipeName, recipe.recipeName),
     recipeType |-> OrElse(payload.recipeType, recipe.recipeType),
     description |-> payload.description,
     ownerName |-> OrElse(payload.ownerName, recipe.ownerName),
     ownerId |-> recipe.ownerId,
     videoDemonstration |-> OrElse(payload.videoDemonstration,
                                   recipe.videoDemonstration)]

UpdatedRecipeB(recipe, payload) ==
    [id |-> recipe.id,
     recipeName |-> OrElse(payload.recipeName, recipe.recipeName),
     recipeType |-> OrElse(payload.recipeType, recipe.recipeType),
     description |-> OrElse(payload.description, recipe.description),
     ownerName |-> OrElse(payload.ownerName, recipe.ownerName),
     ownerId |-> recipe.ownerId,
     videoDemonstration |-> OrElse(payload.videoDemonstration,
                                   recipe.videoDemonstration)]

UpdateRecipeB(st, recipeId, requesterId, payload) ==
    IF ~IsValidUUIDB(recipeId)
    THEN Out(st, Err("InvalidId"))
    ELSE LET got == MapGet(st, recipeId)
         IN  IF got = <<>>
             THEN Out(st, Err("NotFound"))
             ELSE LET recipe == got[1]
                  IN  IF recipe.ownerId # requesterId
                      THEN Out(st, Err("Unauthorized"))
                      ELSE LET updatedRecipe == UpdatedRecipeB(recipe, payload)
                           IN  Out(MapInsert(st, recipe.id, updatedRecipe),
                                   Ok(<<updatedRecipe>>))

\* Faulty variant of DeleteRecipeB: the record is removed before the owner
\* is compared, as in revision A.
DeleteRecipeB_RemoveFirst(st, recipeId, requesterId) ==
    IF ~IsValidUUIDB(recipeId)
    THEN Out(st, Err("InvalidId"))
    ELSE LET got == MapGet(st, recipeId)
             removed == MapRemove(st, recipeId)
         IN  IF got = <<>>
             THEN Out(removed, Err("NotFound"))
             ELSE LET recipe == got[1]
                  IN  IF recipe.ownerId # requesterId
                      THEN Out(removed, Err("Unauthorized"))
                      ELSE Out(removed, Ok(<<recipe>>))

\* Faulty variant of DeleteRecipeB: the record is returned but not removed.
DeleteRecipeB_NoRemove(st, recipeId, requesterId) ==
    IF ~IsValidUUIDB(recipeId)
    THEN Out(st, Err("InvalidId"))
    ELSE LET got == MapGet(st, recipeId)
         IN  IF got = <<>>
             THEN Out(st, Err("NotFound"))
             ELSE LET recipe == got[1]
                  IN  IF recipe.ownerId # requesterId
                      THEN Out(st, Err("Unauthorized"))
                      ELSE Out(st, Ok(<<recipe>>))

\* recipeStorage.get(recipeId) first; remove only after the ownership check.
DeleteRecipeB(st, recipeId, requesterId) ==
    IF ~IsValidUUIDB(recipeId)
    THEN Out(st, Err("InvalidId"))
    ELSE LET got == MapGet(st, recipeId)
         IN  IF got = <<>>
             THEN Out(st, Err("NotFound"))
             ELSE LET recipe == got[1]
                  IN  IF recipe.ownerId # requesterId
                      THEN Out(st, Err("Unauthorized"))
                      ELSE Out(MapRemove(st, recipeId), Ok(<<recipe>>))

(***************************************************************************)
(* The canister as a state machine.  rev is the revision deployed and      *)
(* store is recipeStorage.  The host runs one call at a time, each to      *)
(* completion: last is the call whose result is on its way to the caller   *)
(* (NoCall when the canister is idle) and pre is the store as that call    *)
(* found it.  The next call starts once the result is delivered (Reply).   *)
(***************************************************************************)
Call(op, id, who, text, payload, result) ==
    [op |-> op, id |-> id, who |-> who, text |-> text,
     payload |-> payload, result |-> result]

NoCall == Call("none", Empty, Empty, Empty, PayloadE, Err("None"))

Idle == last = NoCall

Init ==
    /\ rev \in {"A", "B"}
    /\ store = EmptyMap
    /\ pre = EmptyMap
    /\ last = NoCall

\* Faulty variant of Answer: a query that returned nothing clears the store.
Answer_ClearingOnError(call) ==
    /\ Idle
    /\ last' = call
    /\ pre' = store
    /\ store' = IF call.result.value = <<>> THEN EmptyMap ELSE store
    /\ UNCHANGED rev

\* A query: the store is not written.
Answer(call) ==
    /\ Idle
    /\ last' = call
    /\ pre' = store
    /\ UNCHANGED <<rev, store>>

\* An update call that returned out.
Commit(out, op, id, who, payload) ==
    /\ Idle
    /\ store' = out.store
    /\ last' = Call(op, id, who, Empty, payload, out.result)
    /\ pre' = store
    /\ UNCHANGED rev

DoGetAllRecipesA ==
    /\ rev = "A"
    /\ Answer(Call("getAllRecipes", Empty, Empty, Empty, PayloadE,
                   GetAllRecipesA(store)))

DoGetRecipeByIdA ==
    /\ rev = "A"
    /\ \E recipeId \in IdArgs :
           Answer(Call("getRecipeById", recipeId, Empty, Empty, PayloadE,
                       GetRecipeByIdA(store, recipeId)))

DoGetRecipeByNameA ==
    /\ rev = "A"
    /\ \E recipeName \in NameQueries :
           Answer(Call("getRecipeByName", Empty, Empty, recipeName, PayloadE,
                       GetRecipeByNameA(store, recipeName)))

DoGetOwnersRecipesByIdA ==
    /\ rev = "A"
    /\ \E ownerId \in Identities :
           Answer(Call("getOwnersRecipesById", Empty, ownerId, Empty, PayloadE,
                       GetOwnersRecipesByIdA(store, ownerId)))

DoGetRecipesByOwnersNameA ==
    /\ rev = "A"
    /\ \E ownerName \in OwnerNameQueries :
           Answer(Call("getRecipesByOwnersName", Empty, Empty, ownerName, PayloadE,
                       GetRecipesByOwnersNameA(store, ownerName)))

DoGetRecipesByTypeA ==
    /\ rev = "A"
    /\ \E recipeType \in TypeQueries :
           Answer(Call("getRecipesByType", Empty, Empty, recipeType, PayloadE,
                       GetRecipesByTypeA(store, recipeType)))

DoCreateRecipeA ==
    /\ rev = "A"
    /\ \E payload \in Payloads, recipeId \in UuidPool, ownerId \in UuidPool :
           Commit(CreateRecipeA(store, payload, recipeId, ownerId),
                  "createRecipe", Empty, Empty, payload)

DoUpdateRecipeA ==
    /\ rev = "A"
    /\ \E recipeId \in IdArgs, ownerId \in Identities, payload \in UpdatePayloads :
           Commit(UpdateRecipeA(store, recipeId, ownerId, payload),
                  "updateRecipe", recipeId, ownerId, payload)

DoDeleteRecipeA ==
    /\ rev = "A"
    /\ \E recipeId \in IdArgs, ownerId \in Identities :
           Commit(DeleteRecipeA(store, recipeId, ownerId),
                  "deleteRecipe", recipeId, ownerId, PayloadE)

DoIsValidUUIDA ==
    /\ rev = "A"
    /\ \E id \in ValidatorArgs :
           Answer(Call("isValidUUID", id, Empty, Empty, PayloadE,
                       Bool(IsValidUUIDA(id))))

DoGetAllRecipesB ==
    /\ rev = "B"
    /\ Answer(Call("getAllRecipes", Empty, Empty, Empty, PayloadE,
                   GetAllRecipesB(store)))

DoGetRecipeByIdB ==
    /\ rev = "B"
    /\ \E recipeId \in IdArgs, requesterId \in Identities :
           Answer(Call("getRecipeById", recipeId, requesterId, Empty, PayloadE,
                       GetRecipeByIdB(store, recipeId, requesterId)))

DoGetRecipeByNameB ==
    /\ rev = "B"
    /\ \E recipeName \in NameQueries :
           Answer(Call("getRecipeByName", Empty, Empty, recipeName, PayloadE,
                       GetRecipeByNameB(store, recipeName)))

\* The requesterId of the three calls below is not read by the code; last
\* keeps the argument the result depends on.
DoGetOwnersRecipesByIdB ==
    /\ rev = "B"
    /\ \E ownerId \in Identities, requesterId \in Identities :
           Answer(Call("getOwnersRecipesById", Empty, ownerId, Empty, PayloadE,
                       GetOwnersRecipesByIdB(store, ownerId, requesterId)))

DoGetRecipesByOwnersNameB ==
    /\ rev = "B"
    /\ \E ownerName \in OwnerNameQueries, requesterId \in Identities :
           Answer(Call("getRecipesByOwnersName", Empty, Empty, ownerName, PayloadE,
                       GetRecipesByOwnersNameB(store, ownerName, requesterId)))

DoGetRecipesByTypeB ==
    /\ rev = "B"
    /\ \E recipeType \in TypeQueries :
           Answer(Call("getRecipesByType", Empty, Empty, recipeType, PayloadE,
                       GetRecipesByTypeB(store, recipeType)))

DoCreateRecipeB ==
    /\ rev = "B"
    /\ \E requesterId \in Identities, payload \in Payloads, recipeId \in UuidPool :
           Commit(CreateRecipeB(store, requesterId, payload, recipeId),
                  "createRecipe", Empty, requesterId, payload)

DoUpdateRecipeB ==
    /\ rev = "B"
    /\ \E recipeId \in IdArgs, requesterId \in Identities, payload \in UpdatePayloads :
           Commit(UpdateRecipeB(store, recipeId, requesterId, payload),
                  "updateRecipe", recipeId, requesterId, payload)

DoDeleteRecipeB ==
    /\ rev = "B"
    /\ \E recipeId \in IdArgs, requesterId \in Identities :
           Commit(DeleteRecipeB(store, recipeId, requesterId),
                  "deleteRecipe", recipeId, requesterId, PayloadE)

DoIsValidUUIDB ==
    /\ rev = "B"
    /\ \E id \in ValidatorArgs :
           Answer(Call("isValidUUID", id, Empty, Empty, PayloadE,
                       Bool(IsValidUUIDB(id))))

\* The result of the call reaches the caller; the canister is idle again.
Reply ==
    /\ ~Idle
    /\ last' = NoCall
    /\ pre' = store
    /\ UNCHANGED <<rev, store>>

Next ==
    \/ DoGetAllRecipesA
    \/ DoGetRecipeByIdA
    \/ DoGetRecipeByNameA
    \/ DoGetOwnersRecipesByIdA
    \/ DoGetRecipesByOwnersNameA
    \/ DoGetRecipesByTypeA
    \/ DoCreateRecipeA
    \/ DoUpdateRecipeA
    \/ DoDeleteRecipeA
    \/ DoIsValidUUIDA
    \/ DoGetAllRecipesB
    \/ DoGetRecipeByIdB
    \/ DoGetRecipeByNameB
    \/ DoGetOwnersRecipesByIdB
    \/ DoGetRecipesByOwnersNameB
    \/ DoGetRecipesByTypeB
    \/ DoCreateRecipeB
    \/ DoUpdateRecipeB
    \/ DoDeleteRecipeB
    \/ DoIsValidUUIDB
    \/ Reply

Spec == Init /\ [][Next]_vars

(***************************************************************************)
(* The operations of the deployed revision.  who is the identity argument  *)
(* (ownerId in revision A, requesterId in revision B); getRecipeById of    *)
(* revision A takes none.                                                  *)
(***************************************************************************)
GetRecipeById(st, recipeId, who) ==
    IF rev = "A"
    THEN GetRecipeByIdA(st, recipeId)
    ELSE GetRecipeByIdB(st, recipeId, who)

UpdateRecipe(st, recipeId, who, payload) ==
    IF rev = "A"
    THEN UpdateRecipeA(st, recipeId, who, payload)
    ELSE UpdateRecipeB(st, recipeId, who, payload)

(***************************************************************************)
(* Vocabulary of the properties.                                           *)
(***************************************************************************)
PayloadFields ==
    {"recipeName", "recipeType", "description", "ownerName", "videoDemonstration"}

Called(op) == last.op = op

Succeeded(op) == last.op = op /\ last.result.kind = "Ok"

Failed(op, kind) == last.op = op /\ last.result.kind = kind

\* The record a successful single-record call returned.
Returned == last.result.value[1]

\* The call addressed a stored record that the identity argument does not own.
ByNonOwner == last.id \in DOMAIN pre /\ pre[last.id].ownerId # last.who

\* The call addressed a stored record with the identity of its owner.
ByOwner == last.id \in DOMAIN pre /\ pre[last.id].ownerId = last.who

StoredRecords(st) == {st[k] : k \in DOMAIN st}

Items(seq) == {seq[i] : i \in 1..Len(seq)}

\* Every member of S occurs exactly once in seq, and nothing else does.
ListsExactly(seq, S) ==
    /\ Items(seq) = S
    /\ Len(seq) = Cardinality(S)

\* Two characters that are equal or the two cases of one letter.
SameLetter(c, d) ==
    \/ c = d
    \/ \E i \in 1..Len(Upper) : {c, d} = {Upper[i], Lower[i]}

\* Two texts that are equal once their case is ignored.
SameIgnoringCase(x, y) ==
    /\ Len(Chars(x)) = Len(Chars(y))
    /\ \A i \in 1..Len(Chars(x)) : SameLetter(Chars(x)[i], Chars(y)[i])

(***************************************************************************)
(* C1.  deleteRecipe(id, identity) called for a stored record whose        *)
(* ownerId differs from identity fails with Unauthorized and leaves the    *)
(* store unchanged: the record is still present under id with the same     *)
(* fields.  Revision A removes the record before it compares the owner,    *)
(* so the property fails there.                                            *)
(***************************************************************************)
C1_DeleteByNonOwnerKeepsRecord ==
    (Called("deleteRecipe") /\ ByNonOwner)
        => /\ last.result.kind = "Unauthorized"
           /\ store = pre
           /\ last.id \in DOMAIN store
           /\ store[last.id] = pre[last.id]

(***************************************************************************)
(* C2.  As claimed: updateRecipe(id, identity, payload) called for a       *)
(* stored record whose ownerId differs from identity fails with            *)
(* Unauthorized for every identity, well-formed or not, and leaves the     *)
(* store unchanged.                                                        *)
(***************************************************************************)
C2_UpdateByNonOwnerUnauthorized ==
    (Called("updateRecipe") /\ ByNonOwner)
        => /\ last.result.kind = "Unauthorized"
           /\ store = pre

\* The identity argument is not in the 8-4-4-4-12 hexadecimal layout.
Malformed(text) ==
    LET s == Chars(text)
    IN  \/ Len(s) # 36
        \/ \E i \in 1..Len(s) :
               IF i \in {9, 14, 19, 24}
               THEN s[i] # "-"
               ELSE s[i] \notin DigitSet
                    /\ s[i] \notin {"a", "b", "c", "d", "e", "f"}
                    /\ s[i] \notin {"A", "B", "C", "D", "E", "F"}

(***************************************************************************)
(* C2, amended.  updateRecipe(id, identity, payload) called for a stored   *)
(* record whose ownerId differs from identity fails and leaves the whole   *)
(* store unchanged, for every payload; the failure is Unauthorized, except *)
(* that revision A rejects a malformed identity with InvalidId.            *)
(***************************************************************************)
C2_UpdateByNonOwnerFails ==
    (Called("updateRecipe") /\ ByNonOwner)
        => /\ store = pre
           /\ last.result.kind =
                  IF rev = "A" /\ Malformed(last.who)
                  THEN "InvalidId"
                  ELSE "Unauthorized"

C2_Witness ==
    /\ Called("updateRecipe")
    /\ ByNonOwner
    /\ last.result.kind = "Unauthorized"
    /\ last.payload = PayloadB
    /\ Cardinality(DOMAIN pre) = 2

C4_AnyDeleteThenNotFound ==
    (Called("deleteRecipe") /\ last.id \in DOMAIN pre)
        => \A w \in Identities :
               GetRecipeById(store, last.id, w).kind = "NotFound"

(***************************************************************************)
(* C4, amended.  After a successful deleteRecipe(id, identity) call        *)
(* getRecipeById(id) yields NotFound, for every requester, and it keeps    *)
(* yielding NotFound until a createRecipe generates that id again: the     *)
(* only call after which an id that yielded NotFound stops doing so is a   *)
(* successful createRecipe that returned that id.                          *)
(***************************************************************************)
C4_DeletedStaysNotFound ==
    /\ Succeeded("deleteRecipe")
           => \A w \in Identities :
                  GetRecipeById(store, last.id, w).kind = "NotFound"
    /\ \A id \in IdArgs, w \in Identities :
           (/\ GetRecipeById(pre, id, w).kind = "NotFound"
            /\ GetRecipeById(store, id, w).kind # "NotFound")
               => Succeeded("createRecipe") /\ Returned.id = id

C4_Witness ==
    /\ Succeeded("deleteRecipe")
    /\ last.id \in DOMAIN pre
    /\ Cardinality(DOMAIN pre) = 2

(***************************************************************************)
(* C5.  updateRecipe is idempotent: for a stored id, the identity of its   *)
(* owner and any payload, a second updateRecipe with the same arguments    *)
(* leaves the store as the first one left it and returns the same record.  *)
(***************************************************************************)
C5_UpdateIdempotent ==
    (Called("updateRecipe") /\ ByOwner)
        => UpdateRecipe(store, last.id, last.who, last.payload)
               = Out(store, last.result)

C5_Witness ==
    /\ Succeeded("updateRecipe")
    /\ ByOwner
    /\ last.payload = PayloadU
    /\ store # pre

(***************************************************************************)
(* C6.  A successful updateRecipe(id, owner, payload) replaces the record  *)
(* at key id by one whose five text fields are the payload's where the     *)
(* payload's is non-empty and the previous value where it is empty, with   *)
(* id and ownerId as before; every other record is unchanged and the       *)
(* returned record is the stored one.                                      *)
(***************************************************************************)
C6_UpdateMergesPayload ==
    Succeeded("updateRecipe")
        => /\ last.id \in DOMAIN pre
           /\ DOMAIN store = DOMAIN pre
           /\ \A f \in PayloadFields :
                  store[last.id][f] =
                      IF last.payload[f] # "" THEN last.payload[f]
                      ELSE pre[last.id][f]
           /\ store[last.id].id = pre[last.id].id
           /\ store[last.id].ownerId = pre[last.id].ownerId
           /\ \A k \in DOMAIN pre \ {last.id} : store[k] = pre[k]
           /\ last.result.value = <<store[last.id]>>

C6_Witness ==
    /\ Succeeded("updateRecipe")
    /\ last.payload = PayloadU
    /\ pre[last.id].recipeName = "banitsa"
    /\ Cardinality(DOMAIN pre) = 2

(***************************************************************************)
(* C7.  Every stored record is stored under its own id, so no two stored   *)
(* records share an id; and a record that stays in the store keeps the id  *)
(* and ownerId it was created with: after any call a key holds a record    *)
(* with the id and ownerId it held before, unless the call is a            *)
(* createRecipe that has put its new record under that key.                *)
(***************************************************************************)
C7_IdAndOwnerFixed ==
    /\ \A k \in DOMAIN store : store[k].id = k
    /\ \A k \in DOMAIN store \cap DOMAIN pre :
           \/ /\ store[k].id = pre[k].id
              /\ store[k].ownerId = pre[k].ownerId
           \/ /\ Succeeded("createRecipe")
              /\ Returned.id = k
              /\ store[k] = Returned

C7_Witness ==
    /\ Succeeded("updateRecipe")
    /\ store[last.id] # pre[last.id]
    /\ Cardinality(DOMAIN store) = 2

(***************************************************************************)
(* C8.  createRecipe fails with IncompleteInput whenever one of the five   *)
(* payload fields is empty, and then the store is unchanged.               *)
(***************************************************************************)
C8_IncompleteCreateRejected ==
    (Called("createRecipe") /\ \E f \in PayloadFields : last.payload[f] = "")
        => /\ last.result.kind = "IncompleteInput"
           /\ store = pre

C8_Witness ==
    /\ Failed("createRecipe", "IncompleteInput")
    /\ last.payload = PayloadV
    /\ DOMAIN pre # {}

(***************************************************************************)
(* C9.  getAllRecipes fails with EmptyResult exactly when the store holds  *)
(* no record; otherwise it succeeds with a list that holds every stored    *)
(* record exactly once and nothing else.                                   *)
(***************************************************************************)
C9_GetAllRecipes ==
    Called("getAllRecipes")
        => /\ last.result.kind = "EmptyResult" <=> DOMAIN store = {}
           /\ DOMAIN store # {}
                  => /\ last.result.kind = "Ok"
                     /\ ListsExactly(last.result.value, StoredRecords(store))

C9_Witness ==
    /\ Succeeded("getAllRecipes")
    /\ Len(last.result.value) = 2

(***************************************************************************)
(* C10.  getRecipeByName(q) and getRecipesByType(q) match without regard   *)
(* to case: the result is exactly the stored records whose recipeName      *)
(* (recipeType) equals q once case is ignored, a success when there is     *)
(* one and EmptyResult when there is none; a record of type "Bulgarian"    *)
(* is returned for the query "bulgarian".                                  *)
(***************************************************************************)
MatchesExactly(field) ==
    LET hits == {r \in StoredRecords(store) : SameIgnoringCase(r[field], last.text)}
    IN  IF hits = {}
        THEN last.result.kind = "EmptyResult"
        ELSE /\ last.result.kind = "Ok"
             /\ ListsExactly(last.result.value, hits)

C10_CaseInsensitiveMatch ==
    /\ Called("getRecipeByName") => MatchesExactly("recipeName")
    /\ Called("getRecipesByType") => MatchesExactly("recipeType")
    /\ (Called("getRecipesByType") /\ last.text = "bulgarian")
           => \A r \in StoredRecords(store) :
                  r.recipeType = "Bulgarian" => r \in Items(last.result.value)

C10_Witness ==
    /\ Succeeded("getRecipesByType")
    /\ last.text = "bulgarian"
    /\ Cardinality(DOMAIN store) = 2
    /\ Len(last.result.value) = 1
    /\ last.result.value[1].recipeType = "Bulgarian"

(***************************************************************************)
(* C11.  getRecipesByOwnersName(n) matches exactly and with regard to      *)
(* case: it returns exactly the stored records whose ownerName is n,       *)
(* character for character, and EmptyResult when there is none.  With A    *)
(* (name "Banitsa", owner "Maria") and B (name "banitsa", owner "Ivan")    *)
(* stored, getRecipeByName("BANITSA") returns both, while                  *)
(* getRecipesByOwnersName("Maria") returns only A and                      *)
(* getRecipesByOwnersName("maria") returns EmptyResult.                    *)
(***************************************************************************)
\* The store holds exactly A and B of the scenario.
StoresBanitsaPair ==
    /\ Cardinality(DOMAIN store) = 2
    /\ \E a, b \in StoredRecords(store) :
           /\ a.recipeName = "Banitsa" /\ a.ownerName = "Maria"
           /\ b.recipeName = "banitsa" /\ b.ownerName = "Ivan"

C11_OwnerNameExactMatch ==
    /\ Called("getRecipesByOwnersName")
           => LET hits == {r \in StoredRecords(store) :
                               Chars(r.ownerName) = Chars(last.text)}
              IN  IF hits = {}
                  THEN last.result.kind = "EmptyResult"
                  ELSE /\ last.result.kind = "Ok"
                       /\ ListsExactly(last.result.value, hits)
    /\ (Called("getRecipeByName") /\ last.text = "BANITSA" /\ StoresBanitsaPair)
           => ListsExactly(last.result.value, StoredRecords(store))
    /\ (Called("getRecipesByOwnersName") /\ last.text = "Maria" /\ StoresBanitsaPair)
           => /\ Len(last.result.value) = 1
              /\ last.result.value[1].recipeName = "Banitsa"
    /\ (Called("getRecipesByOwnersName") /\ last.text = "maria" /\ StoresBanitsaPair)
           => last.result.kind = "EmptyResult"

C11_Witness ==
    /\ Failed("getRecipesByOwnersName", "EmptyResult")
    /\ last.text = "maria"
    /\ StoresBanitsaPair

(***************************************************************************)
(* C12.  isValidUUID(s) is true exactly when s is 8 hex digits, '-', 4 hex *)
(* digits, '-', 4 hex digits, '-', 4 hex digits, '-', 12 hex digits, in    *)
(* either case and with nothing before or after; it is false for every     *)
(* other text, the empty one and one with a wrong hyphen grouping          *)
(* included; and the validators of the two revisions agree on the text.    *)
(***************************************************************************)
C12_IsValidUUID ==
    Called("isValidUUID")
        => /\ last.result = Bool(~Malformed(last.id))
           /\ IsValidUUIDA(last.id) = IsValidUUIDB(last.id)
           /\ last.id \in {SpecExampleUuid, UpperCaseUuid} => last.result.kind = "true"
           /\ last.id \in {NotAUuid, Empty, WrongGrouping} => last.result.kind = "false"

C12_Witness ==
    /\ Called("isValidUUID")
    /\ last.id = WrongGrouping
    /\ last.result.kind = "false"
    /\ rev = "A"

(***************************************************************************)
(* C13.  In revision B deleteRecipe(id, requesterId) removes a record only *)
(* when it succeeds: the store changes if and only if id is well-formed,   *)
(* present and stored with ownerId = requesterId; then exactly the key id  *)
(* is removed, every other record is unchanged and the removed record is   *)
(* returned.  On every failure the store is unchanged.                     *)
(***************************************************************************)
C13_DeleteBRemovesOnlyOnSuccess ==
    (rev = "B" /\ Called("deleteRecipe"))
        => LET owned == /\ ~Malformed(last.id)
                        /\ last.id \in DOMAIN pre
                        /\ pre[last.id].ownerId = last.who
           IN  /\ owned <=> store # pre
               /\ owned <=> last.result.kind = "Ok"
               /\ owned => /\ DOMAIN store = DOMAIN pre \ {last.id}
                           /\ \A k \in DOMAIN store : store[k] = pre[k]
                           /\ last.result.value = <<pre[last.id]>>
               /\ ~owned => store = pre

C13_Witness ==
    /\ rev = "B"
    /\ Failed("deleteRecipe", "Unauthorized")
    /\ ByNonOwner
    /\ Cardinality(DOMAIN store) = 2

(***************************************************************************)
(* C14.  On success createRecipe inserts the new record under an id that   *)
(* was not a key of the store before the call: the store gains exactly one *)
(* record and every previously stored record is still present and          *)
(* unchanged.  createRecipe takes the id from uuidv4() and inserts without *)
(* looking the id up, so a repeated id replaces the stored record.         *)
(***************************************************************************)
C14_CreateNeverOverwrites ==
    Succeeded("createRecipe")
        => /\ Returned.id \notin DOMAIN pre
           /\ DOMAIN store = DOMAIN pre \cup {Returned.id}
           /\ store[Returned.id] = Returned
           /\ \A k \in DOMAIN pre : store[k] = pre[k]

(***************************************************************************)
(* C15.  updateRecipe and deleteRecipe report failures in a fixed          *)
(* precedence: InvalidId when the recipe id (in revision A also the owner  *)
(* id argument) is malformed, whatever the store holds; otherwise NotFound *)
(* when the id is absent; otherwise Unauthorized when the stored ownerId   *)
(* differs from the supplied identity; success only when none applies.     *)
(***************************************************************************)
C15_FailurePrecedence ==
    (Called("updateRecipe") \/ Called("deleteRecipe"))
        => LET malformed == \/ Malformed(last.id)
                            \/ rev = "A" /\ Malformed(last.who)
               expected == IF malformed THEN "InvalidId"
                           ELSE IF last.id \notin DOMAIN pre THEN "NotFound"
                           ELSE IF pre[last.id].ownerId # last.who
                                THEN "Unauthorized"
                                ELSE "Ok"
           IN  last.result.kind = expected

C15_Witness ==
    /\ rev = "A"
    /\ Failed("deleteRecipe", "InvalidId")
    /\ last.id \in DOMAIN pre
    /\ Malformed(last.who)

(***************************************************************************)
(* C16.  The store is written only by createRecipe, updateRecipe and       *)
(* deleteRecipe: a call of getAllRecipes, getRecipeById, getRecipeByName,  *)
(* getOwnersRecipesById, getRecipesByOwnersName, getRecipesByType or       *)
(* isValidUUID, with any arguments and whatever it returns, leaves the     *)
(* store as it was.                                                        *)
(***************************************************************************)
ReadOperations ==
    {"getAllRecipes", "getRecipeById", "getRecipeByName", "getOwnersRecipesById",
     "getRecipesByOwnersName", "getRecipesByType", "isValidUUID"}

C16_ReadsKeepStore ==
    /\ last.op \in ReadOperations => store = pre
    /\ store # pre => last.op \in {"createRecipe", "updateRecipe", "deleteRecipe"}

C16_Witness ==
    /\ Failed("getRecipeByName", "EmptyResult")
    /\ Cardinality(DOMAIN store) = 2
    /\ store = pre

(***************************************************************************)
(* C17.  In revision B getRecipeById(id, requesterId) is an owner-only     *)
(* read: InvalidId when id is malformed, NotFound when id is absent,       *)
(* Unauthorized when the stored ownerId differs from requesterId, and the  *)
(* stored record only when the stored ownerId equals requesterId.  The     *)
(* format of requesterId plays no part in the answer.                      *)
(***************************************************************************)
C17_OwnerOnlyRead ==
    (rev = "B" /\ Called("getRecipeById"))
        => /\ Malformed(last.id) => last.result = Err("InvalidId")
           /\ (~Malformed(last.id) /\ last.id \notin DOMAIN store)
                  => last.result = Err("NotFound")
           /\ (~Malformed(last.id) /\ last.id \in DOMAIN store)
                  => IF store[last.id].ownerId = last.who
                     THEN last.result = Ok(<<store[last.id]>>)
                     ELSE last.result = Err("Unauthorized")

C17_Witness ==
    /\ rev = "B"
    /\ Succeeded("getRecipeById")
    /\ Malformed(last.who)
    /\ Returned.ownerId = last.who

(***************************************************************************)
(* C18.  getOwnersRecipesById(ownerId) fails with InvalidId when ownerId   *)
(* is malformed, even if stored records carry exactly that ownerId (which  *)
(* revision B allows, createRecipe storing the requesterId unvalidated);   *)
(* otherwise it returns exactly the stored records whose ownerId is        *)
(* identical to the argument, and EmptyResult when there are none.         *)
(***************************************************************************)
C18_OwnersRecipesById ==
    Called("getOwnersRecipesById")
        => LET owned == {r \in StoredRecords(store) : r.ownerId = last.who}
           IN  IF Malformed(last.who)
               THEN last.result = Err("InvalidId")
               ELSE IF owned = {}
                    THEN last.result = Err("EmptyResult")
                    ELSE /\ last.result.kind = "Ok"
                         /\ ListsExactly(last.result.value, owned)

C18_Witness ==
    /\ rev = "B"
    /\ Failed("getOwnersRecipesById", "InvalidId")
    /\ \E r \in StoredRecords(store) : r.ownerId = last.who

(***************************************************************************)
(* C19.  In every reachable state every stored record has a non-empty      *)
(* recipeName, recipeType, description, ownerName and videoDemonstration:  *)
(* createRecipe rejects a payload with an empty field and updateRecipe     *)
(* overwrites a field only with a non-empty payload value.                 *)
(***************************************************************************)
C19_StoredFieldsNonEmpty ==
    \A r \in StoredRecords(store) : \A f \in PayloadFields : r[f] # Empty

C19_Witness ==
    /\ Succeeded("updateRecipe")
    /\ last.payload = PayloadE
    /\ Cardinality(DOMAIN store) = 2
    /\ \E r \in StoredRecords(store) : r.recipeName = "Musaka"

(***************************************************************************)
(* C20.  In revision A each createRecipe assigns a freshly generated       *)
(* ownerId, unrelated to any other record: no two stored records share an  *)
(* ownerId and a successful getOwnersRecipesById returns exactly one       *)
(* record.  The ownerId comes from uuidv4(), like the id, and nothing      *)
(* compares it with the ownerIds already stored.                           *)
(***************************************************************************)
C20_OwnerIdsDistinctA ==
    rev = "A"
        => /\ \A j, k \in DOMAIN store :
                  store[j].ownerId = store[k].ownerId => j = k
           /\ Succeeded("getOwnersRecipesById") => Len(last.result.value) = 1

====
